---------------------------- MODULE Spec2Model ----------------------------
(***************************************************************************)
(* Salvage: backup of local compose files into a private GitHub            *)
(* repository.  The model follows src/salvage.py (Start, GetLocalFiles,    *)
(* GetRemoteFiles, CompareFiles, Notify) and src/services/git.py           *)
(* (Authenticate, GetRepository, GetFiles, SaveFile, DeleteFile).          *)
(*                                                                         *)
(* Strings are sequences of one-character strings, so that str.startswith, *)
(* str.split and pathlib's normalisation are computed as the code computes *)
(* them.  "p" stands for the directory "projects", "d" for a parent        *)
(* directory, "a"/"b" for two projects, "s" for a sub-directory of a       *)
(* project, "c" for the file name "compose.yaml" and "p","r" for a file    *)
(* at the repository root whose name begins like the projects directory.   *)
(***************************************************************************)
EXTENDS Naturals, Sequences, FiniteSets

(***************************************************************************)
(* Bounds of the model.                                                    *)
(***************************************************************************)
\* files matched by the glob patterns on disk
MaxLocal == 2

\* files in the repository before the first run
MaxStore == 2

Contents == {"X", "Y"}

\* Relative paths (as pathlib parts) of the files the glob patterns match.
LocalRels ==
    { << <<"a">>, <<"c">> >>,
      << <<"b">>, <<"c">> >>,
      << <<"a">>, <<"s">>, <<"c">> >> }

\* Values of PROJECTS_DIRECTORY: "./p" (the shape of the default,
\* "./projects") and "d/p" (a directory below another one).
DirSettings ==
    { <<".", "/", "p">>,
      <<"d", "/", "p">> }

\* A file at the repository root, outside the projects directory.
StrayPath == <<"p", "r">>

NoSha == <<>>
NoUrl == <<>>
CommitUrl == <<"u">>
Raised == <<"!">>

(***************************************************************************)
(* Python str / pathlib helpers.                                           *)
(***************************************************************************)
Alphabet == <<".", "/", "a", "b", "c", "d", "p", "r", "s">>

Ord(ch) == CHOOSE n \in 1..Len(Alphabet) : Alphabet[n] = ch

\* str.startswith
StartsWith(s, prefix) ==
    /\ Len(prefix) <= Len(s)
    /\ SubSeq(s, 1, Len(prefix)) = prefix

\* str.split(sep): empty pieces are kept
RECURSIVE Split(_, _)
Split(s, sep) ==
    IF \E n \in 1..Len(s) : s[n] = sep
    THEN LET n == CHOOSE m \in 1..Len(s) :
                     s[m] = sep /\ \A j \in 1..(m - 1) : s[j] # sep
         IN  <<SubSeq(s, 1, n - 1)>> \o Split(SubSeq(s, n + 1, Len(s)), sep)
    ELSE <<s>>

\* sep.join(parts)
RECURSIVE Join(_, _)
Join(parts, sep) ==
    IF parts = <<>> THEN <<>>
    ELSE IF Len(parts) = 1 THEN parts[1]
    ELSE parts[1] \o <<sep>> \o Join(Tail(parts), sep)

\* str.replace(old, new) for single characters
Replace(s, old, new) == [n \in 1..Len(s) |-> IF s[n] = old THEN new ELSE s[n]]

IsPathPart(x) == x # <<>> /\ x # <<".">>

\* pathlib.Path(s).parts for a relative path: "." and empty segments vanish
PathParts(s) == SelectSeq(Split(s, "/"), IsPathPart)

\* str(Path)
PathStr(parts) == IF parts = <<>> THEN <<".">> ELSE Join(parts, "/")

\* Path.relative_to(other).parts
RelativeTo(parts, other) == SubSeq(parts, Len(other) + 1, Len(parts))

\* name order of a directory listing
RECURSIVE NameLess(_, _)
NameLess(x, y) ==
    IF x = <<>> THEN y # <<>>
    ELSE IF y = <<>> THEN FALSE
    ELSE IF x[1] # y[1] THEN Ord(x[1]) < Ord(y[1])
    ELSE NameLess(Tail(x), Tail(y))

RECURSIVE SortNames(_)
SortNames(S) ==
    IF S = {} THEN <<>>
    ELSE LET m == CHOOSE x \in S : \A y \in S \ {x} : NameLess(x, y)
         IN  <<m>> \o SortNames(S \ {m})

\* all orders in which the elements of a finite set can be enumerated
RECURSIVE Orders(_)
Orders(S) ==
    IF S = {} THEN {<<>>}
    ELSE UNION { { <<x>> \o o : o \in Orders(S \ {x}) } : x \in S }

\* dict[key] = value: a new key goes last, an existing key keeps its place
DictKeys(keys, k) ==
    IF \E n \in 1..Len(keys) : keys[n] = k THEN keys ELSE Append(keys, k)

DictPut(d, k, v) == [x \in DOMAIN d \cup {k} |-> IF x = k THEN v ELSE d[x]]

EmptyDict == [x \in {} |-> x]

(***************************************************************************)
(* The GitHub repository: path -> content.  A blob's sha is determined by  *)
(* its content; the contents API returns the content base64-encoded.       *)
(***************************************************************************)
Sha(content) == <<"sha", content>>

B64Encode(content) == <<"b64", content>>

\* base64.b64decode(file.content).decode("UTF-8")
B64Decode(payload) == payload[2]

\* repo.get_contents(dir): the entries of one directory, by name
GetContents(st, dir) ==
    LET dparts == IF dir = <<>> THEN <<>> ELSE Split(dir, "/")
        under  == { p \in DOMAIN st :
                      /\ Len(Split(p, "/")) > Len(dparts)
                      /\ SubSeq(Split(p, "/"), 1, Len(dparts)) = dparts }
        names  == { Split(p, "/")[Len(dparts) + 1] : p \in under }
        entry(n) ==
            LET path == Join(Append(dparts, n), "/")
            IN  IF path \in DOMAIN st
                THEN [type |-> "file", path |-> path, name |-> n,
                      content |-> B64Encode(st[path]), sha |-> Sha(st[path])]
                ELSE [type |-> "dir", path |-> path, name |-> n,
                      content |-> <<>>, sha |-> NoSha]
        sorted == SortNames(names)
    IN  [n \in 1..Len(sorted) |-> entry(sorted[n])]

\* the directories of the repository, the root being <<>>
StoreDirs(st) ==
    {<<>>} \cup
    UNION { { Join(SubSeq(Split(p, "/"), 1, n), "/") :
                n \in 1..(Len(Split(p, "/")) - 1) } : p \in DOMAIN st }

(***************************************************************************)
(* services/git.py                                                         *)
(***************************************************************************)
\* a GetRepository that does not look at repo.private
GetRepositoryAnyVisibility(visibility) ==
    IF visibility = "missing" THEN "none" ELSE "repo"

\* GetRepository: None when the fetch raised or the repository is public
GetRepository(visibility) ==
    IF visibility = "missing" THEN "none"
    ELSE IF visibility # "private" THEN "none"
    ELSE "repo"

\* GetFiles: breadth-first walk; a directory whose listing fails is skipped
RECURSIVE Walk(_, _, _, _)
Walk(st, contents, files, failing) ==
    IF contents = <<>> THEN files
    ELSE LET file == Head(contents)
         IN  IF file.type = "dir"
             THEN IF file.path \in failing
                  THEN Walk(st, Tail(contents), files, failing)
                  ELSE Walk(st, Tail(contents) \o GetContents(st, file.path),
                            files, failing)
             ELSE Walk(st, Tail(contents), Append(files, file), failing)

GetFiles(st, failing) ==
    IF <<>> \in failing THEN <<>>
    ELSE Walk(st, GetContents(st, <<>>), <<>>, failing)

\* a sink whose API exception is not caught
SinkResultRaises(accepted) == IF accepted THEN CommitUrl ELSE Raised

\* SaveFile and DeleteFile: the commit url when GitHub accepted the write;
\* an exception of the API call is caught and None is returned
SinkResult(accepted) == IF accepted THEN CommitUrl ELSE NoUrl

\* SaveFile: update_file when a sha is given, create_file otherwise
SaveFileCall(sha) == IF sha # NoSha THEN "update" ELSE "create"

\* whether GitHub can accept the write: create_file needs a free path,
\* update_file and delete_file need the blob sha of the file at the path
\* (an acceptable write may still fail: see Write)
CanApply(st, op, path, sha) ==
    IF op = "create" THEN path \notin DOMAIN st
    ELSE path \in DOMAIN st /\ Sha(st[path]) = sha

\* the repository after an accepted write
Apply(st, op, path, content) ==
    IF op = "delete" THEN [p \in DOMAIN st \ {path} |-> st[p]]
    ELSE [p \in DOMAIN st \cup {path} |-> IF p = path THEN content ELSE st[p]]

(***************************************************************************)
(* salvage.py: the two readers                                             *)
(***************************************************************************)
\* the Path that directory.glob yields for a match
GlobPath(dir, rel) == PathParts(dir) \o rel

LocalProject(dir, rel) == RelativeTo(GlobPath(dir, rel), PathParts(dir))[1]

LocalFilename(dir, rel) == GlobPath(dir, rel)[Len(GlobPath(dir, rel))]

LocalKey(dir, rel) == LocalProject(dir, rel) \o <<"/">> \o LocalFilename(dir, rel)

LocalPath(dir, rel) == Replace(PathStr(GlobPath(dir, rel)), "\\", "/")

LocalRecord(dir, fs, rel) ==
    [project  |-> LocalProject(dir, rel),
     filename |-> LocalFilename(dir, rel),
     filepath |-> LocalPath(dir, rel),
     content  |-> fs[rel],
     url      |-> NoUrl]

\* the loop of GetLocalFiles over the matches, in glob order
RECURSIVE ReadLocal(_, _, _, _)
ReadLocal(dir, fs, order, results) ==
    IF order = <<>> THEN results
    ELSE LET k == LocalKey(dir, Head(order))
         IN  ReadLocal(dir, fs, Tail(order),
                       [keys |-> DictKeys(results.keys, k),
                        dict |-> DictPut(results.dict, k,
                                         LocalRecord(dir, fs, Head(order)))])

\* projects_directory of GetRemoteFiles: a leading "./" is removed
RemoteDirectory(dir) ==
    IF StartsWith(dir, <<".", "/">>) THEN SubSeq(dir, 3, Len(dir)) ELSE dir

InProjects(dir, path) == StartsWith(path, RemoteDirectory(dir))

\* file.path.split("/")[1]
RemoteProject(path) == Split(path, "/")[2]

RemoteKey(file) == RemoteProject(file.path) \o <<"/">> \o file.name

RemoteRecord(file) ==
    [project  |-> RemoteProject(file.path),
     filename |-> file.name,
     filepath |-> file.path,
     content  |-> B64Decode(file.content),
     sha      |-> file.sha,
     url      |-> NoUrl]

\* split("/")[1] raises IndexError for a path without "/"
RaisesIndexError(dir, files) ==
    \E n \in 1..Len(files) :
        InProjects(dir, files[n].path) /\ Len(Split(files[n].path, "/")) < 2

\* the loop of GetRemoteFiles over the listed files
RECURSIVE ReadRemote(_, _, _)
ReadRemote(dir, files, results) ==
    IF files = <<>> THEN results
    ELSE IF ~InProjects(dir, Head(files).path)
         THEN ReadRemote(dir, Tail(files), results)
         ELSE LET k == RemoteKey(Head(files))
              IN  ReadRemote(dir, Tail(files),
                             [keys |-> DictKeys(results.keys, k),
                              dict |-> DictPut(results.dict, k,
                                               RemoteRecord(Head(files)))])

NoResults == [keys |-> <<>>, dict |-> EmptyDict]

(***************************************************************************)
(* salvage.py: CompareFiles and Notify                                     *)
(***************************************************************************)
\* "not d.get(k)": every record is a non-empty dict, so only a missing key
Missing(d, k) == k \notin DOMAIN d

\* a comparison that never finds two contents equal
UnchangedNever(new, old) == FALSE

\* new["content"] == old["content"]
Unchanged(new, old) == new.content = old.content

\* the branch the first loop takes for one local key
Classify(loc, rem, k) ==
    IF Missing(rem, k) THEN "Created"
    ELSE IF Unchanged(loc[k], rem[k]) THEN "Unchanged"
    ELSE "Modified"

\* a first loop that forgets the sha of the snapshot record
SaveShaNone(rem, k) == NoSha

\* the sha argument of the first loop's SaveFile call
SaveSha(rem, k) == IF Missing(rem, k) THEN NoSha ELSE rem[k].sha

\* a second loop that deletes nothing, and one that deletes every remote key
OrphanedNever(loc, k) == FALSE

OrphanedAlways(loc, k) == TRUE

\* the second loop deletes a remote key that has no local record
Orphaned(loc, k) == Missing(loc, k)

\* the two loops in the other order
LoopOrderSwapped == <<"pass2", "pass1">>

\* CompareFiles runs "for file in local" and then "for file in remote"
LoopOrder == <<"pass1", "pass2">>

AfterLoop(loop) == IF loop = LoopOrder[1] THEN LoopOrder[2] ELSE "finished"

\* Notify: returns at once without DISCORD_WEBHOOK_URL; otherwise one
\* DiscordWebhook.execute(), which delivers, gets an error response, or
\* raises (the call is not guarded)
NotifyOutcomes(hook) ==
    IF ~hook THEN {"unset"} ELSE {"sent", "rejected", "raised"}

Call(op, k, path, content, sha, ok) ==
    [kind |-> op, key |-> k, path |-> path, content |-> content,
     sha |-> sha, ok |-> ok, action |-> ""]

\* a call Notify(record, action)
Event(k, rec, action) ==
    [kind |-> "notify", key |-> k, path |-> rec.filepath,
     content |-> rec.content, sha |-> NoSha, ok |-> TRUE, action |-> action]

(***************************************************************************)
(* State                                                                   *)
(***************************************************************************)
VARIABLES
    dirSetting,   \* PROJECTS_DIRECTORY
    hookSet,      \* whether DISCORD_WEBHOOK_URL is set
    dirExists,    \* whether the projects directory exists on disk
    localFS,      \* files on disk matched by the patterns: rel -> content
    globOrder,    \* the order in which directory.glob yields them
    visibility,   \* what user.get_repo found: "missing", "public", "private"
    store,        \* files of the GitHub repository: path -> content
    run,          \* 1 for the first run of Start, 2 for the second
    pc,           \* position in Start
    local,        \* result of GetLocalFiles: [keys, dict]
    remote,       \* result of GetRemoteFiles: [keys, dict]
    listFailed,   \* whether a directory listing failed in GetFiles
    idx,          \* position of the running loop of CompareFiles
    log,          \* sink calls and Notify calls of this run, in order
    delivery      \* how the Notify call of the latest loop iteration ended

vars == <<dirSetting, hookSet, dirExists, localFS, globOrder, visibility, store, run,
          pc, local, remote, listFailed, idx, log, delivery>>

env == <<dirSetting, hookSet, dirExists, localFS, globOrder>>

\* partial maps with at most n entries
Maps(D, R, n) ==
    UNION { [S -> R] : S \in { T \in SUBSET D : Cardinality(T) <= n } }

\* repository paths before the first run: earlier backups, and a stray file
InitStorePaths(dir) == { LocalPath(dir, rel) : rel \in LocalRels } \cup {StrayPath}

Init ==
    /\ dirSetting \in DirSettings
    /\ hookSet \in BOOLEAN
    /\ dirExists \in BOOLEAN
    /\ localFS \in Maps(LocalRels, Contents, MaxLocal)
    /\ ~dirExists => localFS = EmptyDict
    /\ globOrder \in Orders(DOMAIN localFS)
    /\ visibility = "unknown"
    /\ store \in Maps(InitStorePaths(dirSetting), Contents, MaxStore)
    /\ run = 1
    /\ pc = "start"
    /\ local = NoResults
    /\ remote = NoResults
    /\ listFailed = FALSE
    /\ idx = 0
    /\ log = <<>>
    /\ delivery = "none"

(***************************************************************************)
(* Start, step by step                                                     *)
(***************************************************************************)
\* GetLocalFiles: empty when the directory is missing
GetLocalFiles ==
    /\ pc = "start"
    /\ local' = IF ~dirExists THEN NoResults
                ELSE ReadLocal(dirSetting, localFS, globOrder, NoResults)
    /\ pc' = "auth"
    /\ UNCHANGED <<env, store, run, remote, visibility, listFailed, idx, log, delivery>>

\* Authenticate: Start returns when it yields no user
Authenticate ==
    /\ pc = "auth"
    /\ \E user \in BOOLEAN : pc' = IF user THEN "repo" ELSE "exited"
    /\ UNCHANGED <<env, store, run, local, remote, visibility, listFailed, idx, log, delivery>>

\* GetRepository: Start returns when it yields no repository
FetchRepository ==
    /\ pc = "repo"
    /\ \E found \in {"missing", "public", "private"} :
          /\ visibility' = found
          /\ pc' = IF GetRepository(found) = "none" THEN "exited" ELSE "snapshot"
    /\ UNCHANGED <<env, store, run, local, remote, listFailed, idx, log, delivery>>

\* GetRemoteFiles over GetFiles(repo)
GetRemoteFiles ==
    /\ pc = "snapshot"
    /\ \E bad \in SUBSET StoreDirs(store) :
          LET files == GetFiles(store, bad)
          IN  /\ listFailed' = (bad # {})
              /\ IF RaisesIndexError(dirSetting, files)
                 THEN pc' = "crashed" /\ remote' = remote
                 ELSE /\ pc' = LoopOrder[1]
                      /\ remote' = ReadRemote(dirSetting, files, NoResults)
    /\ idx' = 1
    /\ UNCHANGED <<env, store, run, local, visibility, log, delivery>>

\* one sink call and, when it returns a url, the Notify call that follows;
\* an exception that nothing catches ends Start
Write(op, k, rec, sha, action) ==
    \E accepted \in { b \in BOOLEAN : b => CanApply(store, op, rec.filepath, sha) } :
        LET url  == SinkResult(accepted)
            call == Call(op, k, rec.filepath, rec.content, sha, accepted)
        IN  /\ store' = IF accepted
                        THEN Apply(store, op, rec.filepath, rec.content)
                        ELSE store
            /\ IF url = Raised
               THEN /\ log' = Append(log, call)
                    /\ delivery' = "none"
                    /\ pc' = "crashed"
                    /\ idx' = idx
               ELSE IF url # NoUrl
               THEN \E outcome \in NotifyOutcomes(hookSet) :
                      /\ log' = log \o <<call, Event(k, rec, action)>>
                      /\ delivery' = outcome
                      /\ IF outcome = "raised"
                         THEN pc' = "crashed" /\ idx' = idx
                         ELSE pc' = pc /\ idx' = idx + 1
               ELSE /\ log' = Append(log, call)
                    /\ delivery' = "none"
                    /\ pc' = pc
                    /\ idx' = idx + 1

\* one iteration of "for file in local"
Pass1Step ==
    /\ pc = "pass1"
    /\ idx <= Len(local.keys)
    /\ LET k   == local.keys[idx]
           new == local.dict[k]
       IN  IF Classify(local.dict, remote.dict, k) = "Unchanged"
           THEN /\ idx' = idx + 1
                /\ delivery' = "none"
                /\ UNCHANGED <<store, log, pc, local>>
           ELSE /\ Write(SaveFileCall(SaveSha(remote.dict, k)), k, new,
                         SaveSha(remote.dict, k),
                         Classify(local.dict, remote.dict, k))
                /\ local' = IF Len(log') = Len(log) + 2
                            THEN [local EXCEPT !.dict[k].url = CommitUrl]
                            ELSE local
    /\ UNCHANGED <<env, run, remote, visibility, listFailed>>

\* "for file in local" is exhausted
Pass1Done ==
    /\ pc = "pass1"
    /\ idx > Len(local.keys)
    /\ pc' = AfterLoop("pass1")
    /\ idx' = 1
    /\ UNCHANGED <<env, store, run, local, remote, visibility, listFailed, log, delivery>>

\* one iteration of "for file in remote"
Pass2Step ==
    /\ pc = "pass2"
    /\ idx <= Len(remote.keys)
    /\ LET k   == remote.keys[idx]
           old == remote.dict[k]
       IN  IF Orphaned(local.dict, k)
           THEN /\ Write("delete", k, old, old.sha, "Deleted")
                /\ remote' = IF Len(log') = Len(log) + 2
                             THEN [remote EXCEPT !.dict[k].url = CommitUrl]
                             ELSE remote
           ELSE /\ idx' = idx + 1
                /\ delivery' = "none"
                /\ UNCHANGED <<store, log, pc, remote>>
    /\ UNCHANGED <<env, run, local, visibility, listFailed>>

\* "for file in remote" is exhausted; after the later loop CompareFiles
\* returns and Start logs its last line
Pass2Done ==
    /\ pc = "pass2"
    /\ idx > Len(remote.keys)
    /\ pc' = AfterLoop("pass2")
    /\ idx' = 1
    /\ UNCHANGED <<env, store, run, local, remote, visibility, listFailed, log, delivery>>

\* every sink call of the run returned a url and every listing succeeded
CleanRun == ~listFailed /\ \A n \in 1..Len(log) : log[n].ok

\* the program is started a second time after a clean first run,
\* with the files on disk and the configuration as they were
StartAgain ==
    /\ pc = "finished"
    /\ run = 1
    /\ CleanRun
    /\ run' = 2
    /\ pc' = "start"
    /\ local' = NoResults
    /\ remote' = NoResults
    /\ listFailed' = FALSE
    /\ visibility' = "unknown"
    /\ idx' = 0
    /\ log' = <<>>
    /\ delivery' = "none"
    /\ UNCHANGED <<env, store>>

Next ==
    \/ GetLocalFiles
    \/ Authenticate
    \/ FetchRepository
    \/ GetRemoteFiles
    \/ Pass1Step
    \/ Pass1Done
    \/ Pass2Step
    \/ Pass2Done
    \/ StartAgain

Spec == Init /\ [][Next]_vars

(***************************************************************************)
(* Vocabulary of the properties                                            *)
(***************************************************************************)
InCompare == pc \in {"pass1", "pass2", "finished", "crashed"} /\ idx > 0

\* keys with a record on both sides
Both == DOMAIN local.dict \cap DOMAIN remote.dict

Differs(k) == local.dict[k].content # remote.dict[k].content

\* positions of the log: sink calls, and Notify calls, made for key k
CallsOf(k, kinds) ==
    { n \in 1..Len(log) : log[n].key = k /\ log[n].kind \in kinds }

EventsOf(k, actions) ==
    { n \in 1..Len(log) :
        log[n].key = k /\ log[n].kind = "notify" /\ log[n].action \in actions }

Events(actions) ==
    { n \in 1..Len(log) : log[n].kind = "notify" /\ log[n].action \in actions }

SinkKinds == {"create", "update", "delete"}

Actions == {"Created", "Modified", "Deleted"}

AllAccepted == \A n \in 1..Len(log) : log[n].ok

PassOneOver == pc \in {"pass2", "finished"}

(***************************************************************************)
(* C1: a unit on both sides whose contents differ gets exactly one Update  *)
(* call (local path, local content, the snapshot record's sha), no Create  *)
(* and no Delete call, and one Modified event when the Update returned a   *)
(* url.                                                                    *)
(***************************************************************************)
C1_ModifiedOnce ==
    InCompare =>
      \A k \in Both :
        Differs(k) =>
          /\ CallsOf(k, {"create", "delete"}) = {}
          /\ Cardinality(CallsOf(k, {"update"})) <= 1
          /\ \A n \in CallsOf(k, {"update"}) :
                /\ log[n].path = local.dict[k].filepath
                /\ log[n].content = local.dict[k].content
                /\ log[n].sha = remote.dict[k].sha
                /\ log[n].sha = Sha(remote.dict[k].content)
          /\ PassOneOver => Cardinality(CallsOf(k, {"update"})) = 1
          /\ EventsOf(k, {"Created", "Deleted"}) = {}
          /\ Cardinality(EventsOf(k, {"Modified"}))
               = Cardinality({ n \in CallsOf(k, {"update"}) : log[n].ok })

C1_Witness ==
    /\ pc = "finished"
    /\ \E k \in Both :
         /\ Differs(k)
         /\ \E n \in CallsOf(k, {"update"}) : log[n].ok
         /\ EventsOf(k, {"Modified"}) # {}

(***************************************************************************)
(* C2: with disjoint key sets and every sink call returning a url, a       *)
(* completed CompareFiles has made one Create call (path, content, no sha) *)
(* and one Created event per local unit, one Deleted event per snapshot    *)
(* unit, and no Modified event.                                            *)
(***************************************************************************)
C2_DisjointCounts ==
    (pc = "finished" /\ Both = {} /\ AllAccepted) =>
      /\ Cardinality(Events({"Created"})) = Cardinality(DOMAIN local.dict)
      /\ Cardinality(Events({"Deleted"})) = Cardinality(DOMAIN remote.dict)
      /\ Events({"Modified"}) = {}
      /\ \A k \in DOMAIN local.dict :
            /\ Cardinality(EventsOf(k, {"Created"})) = 1
            /\ Cardinality(CallsOf(k, SinkKinds)) = 1
            /\ \A n \in CallsOf(k, SinkKinds) :
                  /\ log[n].kind = "create"
                  /\ log[n].path = local.dict[k].filepath
                  /\ log[n].content = local.dict[k].content
                  /\ log[n].sha = NoSha
      /\ \A k \in DOMAIN remote.dict :
            Cardinality(EventsOf(k, {"Deleted"})) = 1

C2_Witness ==
    /\ pc = "finished"
    /\ Both = {}
    /\ AllAccepted
    /\ DOMAIN local.dict # {}
    /\ DOMAIN remote.dict # {}
    /\ Cardinality(Events({"Created"})) = Cardinality(DOMAIN local.dict)
    /\ Cardinality(Events({"Deleted"})) = Cardinality(DOMAIN remote.dict)

(***************************************************************************)
(* C3: a unit on both sides with equal contents gets no sink call and no   *)
(* Notify call, and its file in the repository stays as it was read.       *)
(***************************************************************************)
C3_UnchangedUntouched ==
    InCompare =>
      \A k \in Both :
        ~Differs(k) =>
          /\ CallsOf(k, SinkKinds) = {}
          /\ EventsOf(k, Actions) = {}
          /\ remote.dict[k].filepath \in DOMAIN store
          /\ store[remote.dict[k].filepath] = remote.dict[k].content

C3_Witness ==
    /\ pc = "finished"
    /\ \E k \in Both : ~Differs(k)
    /\ \E n \in 1..Len(log) : log[n].ok

(***************************************************************************)
(* C4: a Delete call is made only for a snapshot unit without a local      *)
(* counterpart, with that snapshot record's path and sha.                  *)
(***************************************************************************)
C4_DeleteOnlyOrphans ==
    \A n \in 1..Len(log) :
      log[n].kind = "delete" =>
        /\ log[n].key \notin DOMAIN local.dict
        /\ log[n].key \in DOMAIN remote.dict
        /\ log[n].path = remote.dict[log[n].key].filepath
        /\ log[n].sha = remote.dict[log[n].key].sha

C4_Witness ==
    /\ pc = "finished"
    /\ Both # {}
    /\ \E n \in 1..Len(log) : log[n].kind = "delete"

(***************************************************************************)
(* C5: a sink call that fails produces no Notify call, changes nothing in  *)
(* the repository and lets the loop go on to its next unit; at the end of  *)
(* CompareFiles every unit that needed a write has had its one sink call,  *)
(* whatever the other calls returned, and only accepted calls have an      *)
(* event.  A run that ends early inside CompareFiles never does so at a    *)
(* failed sink call: its last step is a Notify call whose delivery raised. *)
(***************************************************************************)
C5_FailStep ==
    (pc \in {"pass1", "pass2"} /\ Len(log') > Len(log)
       /\ ~log'[Len(log) + 1].ok) =>
      /\ Len(log') = Len(log) + 1
      /\ delivery' = "none"
      /\ pc' = pc
      /\ idx' = idx + 1
      /\ store' = store
      /\ local' = local
      /\ remote' = remote

C5_AllAttempted ==
    pc = "finished" =>
      /\ \A k \in DOMAIN local.dict :
            /\ Cardinality(CallsOf(k, SinkKinds))
                 = IF k \in Both /\ ~Differs(k) THEN 0 ELSE 1
            /\ Cardinality(EventsOf(k, Actions))
                 = Cardinality({ n \in CallsOf(k, SinkKinds) : log[n].ok })
      /\ \A k \in DOMAIN remote.dict \ DOMAIN local.dict :
            /\ Cardinality(CallsOf(k, {"delete"})) = 1
            /\ Cardinality(EventsOf(k, Actions))
                 = Cardinality({ n \in CallsOf(k, SinkKinds) : log[n].ok })

C5_NoAbortAtSink ==
    (pc = "crashed" /\ log # <<>>) =>
      /\ log[Len(log)].kind = "notify"
      /\ delivery = "raised"

C5_FailureIsLocal ==
    [](C5_AllAttempted /\ C5_NoAbortAtSink) /\ [][C5_FailStep]_vars

C5_Witness ==
    /\ pc = "finished"
    /\ \E m, n \in 1..Len(log) :
         /\ m < n
         /\ log[m].kind \in SinkKinds /\ ~log[m].ok
         /\ log[n].kind \in SinkKinds /\ log[n].ok
         /\ log[m].key # log[n].key
         /\ EventsOf(log[m].key, Actions) = {}
         /\ EventsOf(log[n].key, Actions) # {}

(***************************************************************************)
(* C6: within one run no Create or Update call and no Created or Modified  *)
(* notification comes after a Delete call.                                 *)
(***************************************************************************)
C6_PassOrder ==
    /\ \A m, n \in 1..Len(log) :
         (m < n /\ log[m].kind = "delete") =>
           /\ log[n].kind \notin {"create", "update"}
           /\ log[n].action \notin {"Created", "Modified"}
    /\ (pc = "pass1" /\ idx <= Len(local.keys)) =>
         \A n \in 1..Len(log) : log[n].kind # "delete"

C6_Witness ==
    /\ pc = "finished"
    /\ \E m, n \in 1..Len(log) :
         /\ m < n
         /\ log[m].kind = "notify" /\ log[m].action \in {"Created", "Modified"}
         /\ log[n].kind = "delete"

(***************************************************************************)
(* C7: when authentication fails, the repository cannot be fetched or it   *)
(* is not private, the run ends without reading the snapshot, without a    *)
(* sink call and without a notification.                                   *)
(***************************************************************************)
C7_FatalBeforeCompare ==
    /\ pc = "exited" =>
         /\ log = <<>>
         /\ remote = NoResults
         /\ ~listFailed
         /\ delivery = "none"
    /\ visibility \in {"missing", "public"} =>
         /\ pc = "exited"
         /\ log = <<>>
    /\ pc \in {"snapshot", "pass1", "pass2", "finished", "crashed"} =>
         visibility = "private"

C7_Witness ==
    /\ pc = "exited"
    /\ visibility = "public"
    /\ DOMAIN local.dict # {}
    /\ DOMAIN store # {}

(***************************************************************************)
(* C8: a Notify call whose delivery fails, or that finds no webhook        *)
(* configured, does not abort CompareFiles.                                *)
(***************************************************************************)
C8_NotifyNeverAborts ==
    delivery \in {"unset", "rejected", "raised"} => pc # "crashed"

(***************************************************************************)
(* C9: after a first run in which every sink call was accepted, a second   *)
(* run over the same local files, its snapshot read completely, makes no   *)
(* sink call and no Notify call.                                           *)
(***************************************************************************)
C9_SecondRunQuiet == (run = 2 /\ ~listFailed) => log = <<>>

(***************************************************************************)
(* C10: the key GetRemoteFiles derives for the repository file at a path   *)
(* equals the key GetLocalFiles derived for the local file at that path.   *)
(***************************************************************************)
C10_KeysAgree ==
    LET files == GetFiles(store, {})
    IN  \A k \in DOMAIN local.dict :
          \A n \in 1..Len(files) :
            files[n].path = local.dict[k].filepath =>
              /\ InProjects(dirSetting, files[n].path)
              /\ RemoteKey(files[n]) = k

(***************************************************************************)
(* C11: within one GetLocalFiles pass any two distinct matched files get   *)
(* distinct keys, so every matched file has its own record in the result   *)
(* and none is overwritten by another.                                     *)
(***************************************************************************)
C11_LocalKeysUnique ==
    (pc # "start" /\ dirExists) =>
      /\ \A r1, r2 \in DOMAIN localFS :
            r1 # r2 => LocalKey(dirSetting, r1) # LocalKey(dirSetting, r2)
      /\ Cardinality(DOMAIN local.dict) = Cardinality(DOMAIN localFS)
      /\ \A rel \in DOMAIN localFS :
            /\ LocalKey(dirSetting, rel) \in DOMAIN local.dict
            /\ local.dict[LocalKey(dirSetting, rel)].filepath
                 = LocalPath(dirSetting, rel)

=============================================================================
